---- MODULE Spec2Model ----
(***************************************************************************)
(* Bridge It: the board (src/src/board.py), the player record              *)
(* (src/src/player.py) and the game engine (src/src/game.py).              *)
(*                                                                         *)
(* A node is a pair <<row, col>>; an edge is a pair of nodes <<n1, n2>>    *)
(* in normalized order.  Python lists are sequences (index i of the code   *)
(* is index i + 1 here).  Every method of Board and BridgeItGame is an     *)
(* operator from the object's fields to its fields after the call and the  *)
(* value returned; the actions of Spec apply them to the state variables.  *)
(***************************************************************************)
EXTENDS Integers, Sequences, FiniteSets, TLC

VARIABLES board, players, current_player_index, game_state, winner,
          move_history, last, search

vars == <<board, players, current_player_index, game_state, winner,
          move_history, last, search>>

----------------------------------------------------------------------------
(* Bounds of the model *)

\* largest number of rows and of columns of a board
MaxDim == 3
\* largest number of nodes (rows * cols) of a board
MaxCells == 6
\* make_move is offered only while the history is shorter than this
MaxMoves == 2
\* largest number of nodes of a board played to the end
MaxPlayCells == 4
\* on such a board make_move is offered while the history is shorter than this
MaxPlayMoves == 4

----------------------------------------------------------------------------
(* EdgeState, GameState, PlayerType *)

EMPTY == 0
PLAYER1 == 1
PLAYER2 == 2
EdgeState == {EMPTY, PLAYER1, PLAYER2}

SETUP == "setup"
PLAYING == "playing"
FINISHED == "finished"
GameState == {SETUP, PLAYING, FINISHED}

HUMAN == "human"

\* Python's None where a player is expected (no current player, no winner)
None == 0

----------------------------------------------------------------------------
(* Board *)

\* Python's order on tuples of two integers
TupleLess(a, b) == a[1] < b[1] \/ (a[1] = b[1] /\ a[2] < b[2])

_normalize_edge(node1, node2) ==
    IF TupleLess(node1, node2) THEN <<node1, node2>> ELSE <<node2, node1>>

\* _initialize_edges with the horizontal loop running over every column, so
\* that the last column is joined to a node outside the grid
_initialize_edges_every_column(rows, cols) ==
    LET horizontal == {_normalize_edge(<<row, col>>, <<row, col + 1>>) :
                          row \in 0..(rows - 1), col \in 0..(cols - 1)}
        vertical == {_normalize_edge(<<row, col>>, <<row + 1, col>>) :
                          row \in 0..(rows - 2), col \in 0..(cols - 1)}
    IN  [edge \in horizontal \cup vertical |-> EMPTY]

\* the keys _initialize_edges stores, each with EdgeState.EMPTY
_initialize_edges(rows, cols) ==
    LET horizontal == {_normalize_edge(<<row, col>>, <<row, col + 1>>) :
                          row \in 0..(rows - 1), col \in 0..(cols - 2)}
        vertical == {_normalize_edge(<<row, col>>, <<row + 1, col>>) :
                          row \in 0..(rows - 2), col \in 0..(cols - 1)}
    IN  [edge \in horizontal \cup vertical |-> EMPTY]

Board(rows, cols) ==
    [rows |-> rows, cols |-> cols, edges |-> _initialize_edges(rows, cols)]

\* is_valid_move without the test that the edge is Empty
is_valid_move_in_grid(b, node1, node2) ==
    _normalize_edge(node1, node2) \in DOMAIN b.edges

\* is_valid_move reading the edge with a default of Empty (edges.get), so that
\* a pair that is no edge of the grid counts as Empty
is_valid_move_default_empty(b, node1, node2) ==
    LET edge == _normalize_edge(node1, node2)
    IN  IF edge \in DOMAIN b.edges THEN b.edges[edge] = EMPTY ELSE TRUE

is_valid_move(b, node1, node2) ==
    LET edge == _normalize_edge(node1, node2)
    IN  edge \in DOMAIN b.edges /\ b.edges[edge] = EMPTY

player_state_of(player) == IF player = 1 THEN PLAYER1 ELSE PLAYER2

\* self.edges[edge] = state: a Python dict assignment (adds the key if absent)
SetItem(edges, edge, state) ==
    [e \in (DOMAIN edges) \cup {edge} |-> IF e = edge THEN state ELSE edges[e]]

\* place_bridge testing occupancy on the pair as given, not on the normalized
\* edge
place_bridge_occupancy_as_given(b, node1, node2, player) ==
    LET edge == _normalize_edge(node1, node2)
    IN  IF edge \notin DOMAIN b.edges
           \/ (<<node1, node2>> \in DOMAIN b.edges
                 /\ b.edges[<<node1, node2>>] # EMPTY)
        THEN [board |-> b, ret |-> FALSE]
        ELSE [board |-> [b EXCEPT !.edges =
                            SetItem(b.edges, edge, player_state_of(player))],
              ret |-> TRUE]

place_bridge(b, node1, node2, player) ==
    IF ~is_valid_move(b, node1, node2)
    THEN [board |-> b, ret |-> FALSE]
    ELSE [board |-> [b EXCEPT !.edges =
                        SetItem(b.edges, _normalize_edge(node1, node2),
                                player_state_of(player))],
          ret |-> TRUE]

\* get_edge_state looking the pair up as given, without normalizing it
get_edge_state_as_given(b, node1, node2) ==
    IF <<node1, node2>> \in DOMAIN b.edges THEN b.edges[<<node1, node2>>]
    ELSE EMPTY

get_edge_state(b, node1, node2) ==
    LET edge == _normalize_edge(node1, node2)
    IN  IF edge \in DOMAIN b.edges THEN b.edges[edge] ELSE EMPTY

directions == << <<-1, 0>>, <<1, 0>>, <<0, -1>>, <<0, 1>> >>

get_neighbors(b, node) ==
    LET cand == [i \in 1..4 |-> <<node[1] + directions[i][1],
                                   node[2] + directions[i][2]>>]
        ok(n) == 0 <= n[1] /\ n[1] < b.rows /\ 0 <= n[2] /\ n[2] < b.cols
    IN  SelectSeq(cand, ok)

get_player_edges(b, player) ==
    {edge \in DOMAIN b.edges : b.edges[edge] = player_state_of(player)}

\* dfs(node) of _has_path_between_sets with the closure's visited set made
\* explicit: the result is the value returned and the visited set afterwards.
\* dfs_neighbors is the for loop over get_neighbors(node) from position i.
RECURSIVE dfs(_, _, _, _, _), dfs_neighbors(_, _, _, _, _, _, _)
dfs(b, end_nodes, player, node, visited) ==
    IF node \in visited THEN [ret |-> FALSE, visited |-> visited]
    ELSE IF node \in end_nodes THEN [ret |-> TRUE, visited |-> visited]
    ELSE dfs_neighbors(b, end_nodes, player, node, get_neighbors(b, node), 1,
                       visited \cup {node})

dfs_neighbors(b, end_nodes, player, node, nbrs, i, visited) ==
    IF i > Len(nbrs) THEN [ret |-> FALSE, visited |-> visited]
    ELSE IF get_edge_state(b, node, nbrs[i]) = player_state_of(player)
         THEN LET r == dfs(b, end_nodes, player, nbrs[i], visited)
              IN  IF r.ret THEN r
                  ELSE dfs_neighbors(b, end_nodes, player, node, nbrs, i + 1,
                                     r.visited)
         ELSE dfs_neighbors(b, end_nodes, player, node, nbrs, i + 1, visited)

\* the loop over start_nodes from position i; visited is cleared per start node
RECURSIVE try_starts(_, _, _, _, _)
try_starts(b, start_nodes, end_nodes, player, i) ==
    IF i > Len(start_nodes) THEN FALSE
    ELSE IF dfs(b, end_nodes, player, start_nodes[i], {}).ret THEN TRUE
    ELSE try_starts(b, start_nodes, end_nodes, player, i + 1)

Range(s) == {s[i] : i \in 1..Len(s)}

_has_path_between_sets(b, start_nodes, end_nodes, player) ==
    try_starts(b, start_nodes, Range(end_nodes), player, 1)

\* has_winning_path searching from the start side to the start side
has_winning_path_same_side(b, player) ==
    LET start_nodes == IF player = 1
                       THEN [i \in 1..b.cols |-> <<0, i - 1>>]
                       ELSE [i \in 1..b.rows |-> <<i - 1, 0>>]
    IN  _has_path_between_sets(b, start_nodes, start_nodes, player)

has_winning_path(b, player) ==
    LET start_nodes == IF player = 1
                       THEN [i \in 1..b.cols |-> <<0, i - 1>>]
                       ELSE [i \in 1..b.rows |-> <<i - 1, 0>>]
        end_nodes == IF player = 1
                     THEN [i \in 1..b.cols |-> <<b.rows - 1, i - 1>>]
                     ELSE [i \in 1..b.rows |-> <<i - 1, b.cols - 1>>]
    IN  _has_path_between_sets(b, start_nodes, end_nodes, player)

----------------------------------------------------------------------------
(* Player *)

Player(player_id, name, color, player_type) ==
    [player_id |-> player_id, name |-> name, color |-> color,
     player_type |-> player_type, moves_made |-> 0]

----------------------------------------------------------------------------
(* BridgeItGame: the fields of a game object as a record *)

BridgeItGame(board_rows, board_cols) ==
    [board |-> Board(board_rows, board_cols),
     players |-> << >>,
     current_player_index |-> 0,
     game_state |-> SETUP,
     winner |-> None,
     move_history |-> << >>]

\* add_player refusing only past two players (> in place of >=)
add_player_past_two(g, name, color, player_type) ==
    IF Len(g.players) > 2
    THEN [g |-> g, raised |-> TRUE, ret |-> None]
    ELSE LET player == Player(Len(g.players) + 1, name, color, player_type)
         IN  [g |-> [g EXCEPT !.players = Append(g.players, player)],
              raised |-> FALSE, ret |-> player]

\* raises ValueError (raised = TRUE, nothing assigned) or returns the player
add_player(g, name, color, player_type) ==
    IF Len(g.players) >= 2
    THEN [g |-> g, raised |-> TRUE, ret |-> None]
    ELSE LET player == Player(Len(g.players) + 1, name, color, player_type)
         IN  [g |-> [g EXCEPT !.players = Append(g.players, player)],
              raised |-> FALSE, ret |-> player]

\* start_game without the test of the number of players
start_game_any_players(g) ==
    [g |-> [g EXCEPT !.game_state = PLAYING, !.current_player_index = 0],
     ret |-> TRUE]

start_game(g) ==
    IF Len(g.players) # 2
    THEN [g |-> g, ret |-> FALSE]
    ELSE [g |-> [g EXCEPT !.game_state = PLAYING,
                          !.current_player_index = 0],
          ret |-> TRUE]

\* the index (from 1) into players of the current player, or None
get_current_player(g) ==
    IF g.game_state # PLAYING \/ g.players = << >>
    THEN None
    ELSE g.current_player_index + 1

\* make_move from "Try to place the bridge" on, for the current player cp
\* (an index into players)
make_move_place(g, cp, node1, node2) ==
    LET pid == g.players[cp].player_id
        placed == place_bridge(g.board, node1, node2, pid)
    IN  IF ~placed.ret THEN [g |-> g, ret |-> FALSE]
        ELSE LET g1 == [g EXCEPT
                          !.board = placed.board,
                          !.move_history = Append(@, <<node1, node2, pid>>),
                          !.players[cp].moves_made = @ + 1]
             IN  IF has_winning_path(g1.board, pid)
                 THEN [g |-> [g1 EXCEPT !.winner = pid,
                                        !.game_state = FINISHED],
                       ret |-> TRUE]
                 ELSE [g |-> [g1 EXCEPT !.current_player_index = 1 - @],
                       ret |-> TRUE]

\* make_move refusing only in Setup
make_move_unless_setup(g, node1, node2) ==
    IF g.game_state = SETUP \/ g.players = << >>
    THEN [g |-> g, ret |-> FALSE]
    ELSE make_move_place(g, g.current_player_index + 1, node1, node2)

make_move(g, node1, node2) ==
    IF g.game_state # PLAYING THEN [g |-> g, ret |-> FALSE]
    ELSE IF get_current_player(g) = None THEN [g |-> g, ret |-> FALSE]
    ELSE make_move_place(g, get_current_player(g), node1, node2)

get_available_moves(g) ==
    {edge \in DOMAIN g.board.edges : g.board.edges[edge] = EMPTY}

\* the loop of undo_last_move without its test of player_id: the first player
\* is decremented, whoever made the move
decrement_moves_first(ps, pid) ==
    IF ps = << >> THEN ps ELSE [ps EXCEPT ![1].moves_made = @ - 1]

\* the loop of undo_last_move finding no player to decrement
decrement_moves_none(ps, pid) == ps

\* the first player whose player_id is pid gets moves_made - 1 (for ... break)
decrement_moves(ps, pid) ==
    LET hits == {i \in 1..Len(ps) : ps[i].player_id = pid}
    IN  IF hits = {} THEN ps
        ELSE LET i == CHOOSE j \in hits : \A k \in hits : j <= k
             IN  [ps EXCEPT ![i].moves_made = @ - 1]

\* undo_last_move clearing the edge as recorded, without normalizing it
undo_last_move_as_recorded(g) ==
    IF g.move_history = << >> \/ g.game_state = FINISHED
    THEN [g |-> g, ret |-> FALSE]
    ELSE LET n == Len(g.move_history)
             move == g.move_history[n]
         IN  [g |-> [g EXCEPT
                       !.move_history = SubSeq(@, 1, n - 1),
                       !.board.edges = SetItem(@, <<move[1], move[2]>>, EMPTY),
                       !.players = decrement_moves(@, move[3]),
                       !.current_player_index = 1 - @],
              ret |-> TRUE]

\* undo_last_move refusing only on an empty history
undo_last_move_when_finished(g) ==
    IF g.move_history = << >>
    THEN [g |-> g, ret |-> FALSE]
    ELSE LET n == Len(g.move_history)
             move == g.move_history[n]
             edge == _normalize_edge(move[1], move[2])
         IN  [g |-> [g EXCEPT
                       !.move_history = SubSeq(@, 1, n - 1),
                       !.board.edges = SetItem(@, edge, EMPTY),
                       !.players = decrement_moves(@, move[3]),
                       !.current_player_index = 1 - @],
              ret |-> TRUE]

undo_last_move(g) ==
    IF g.move_history = << >> \/ g.game_state = FINISHED
    THEN [g |-> g, ret |-> FALSE]
    ELSE LET n == Len(g.move_history)
             move == g.move_history[n]
             edge == _normalize_edge(move[1], move[2])
         IN  [g |-> [g EXCEPT
                       !.move_history = SubSeq(@, 1, n - 1),
                       !.board.edges = SetItem(@, edge, EMPTY),
                       !.players = decrement_moves(@, move[3]),
                       !.current_player_index = 1 - @],
              ret |-> TRUE]

\* reset_game leaving the players' move counters as they are
reset_game_keep_counters(g) ==
    [g EXCEPT
       !.board = Board(g.board.rows, g.board.cols),
       !.current_player_index = 0,
       !.game_state = IF Len(g.players) # 2 THEN SETUP ELSE PLAYING,
       !.winner = None,
       !.move_history = << >>]

reset_game(g) ==
    [g EXCEPT
       !.board = Board(g.board.rows, g.board.cols),
       !.current_player_index = 0,
       !.game_state = IF Len(g.players) # 2 THEN SETUP ELSE PLAYING,
       !.winner = None,
       !.move_history = << >>,
       !.players = [i \in 1..Len(g.players) |->
                       [g.players[i] EXCEPT !.moves_made = 0]]]

----------------------------------------------------------------------------
(* The engine as a state machine *)

\* the game object held in the state variables
Self ==
    [board |-> board, players |-> players,
     current_player_index |-> current_player_index,
     game_state |-> game_state, winner |-> winner,
     move_history |-> move_history]

\* the state variables become the fields of g
Becomes(g) ==
    /\ board' = g.board
    /\ players' = g.players
    /\ current_player_index' = g.current_player_index
    /\ game_state' = g.game_state
    /\ winner' = g.winner
    /\ move_history' = g.move_history

\* the board sizes a game is constructed with
BoardSizes == {d \in (2..MaxDim) \X (2..MaxDim) : d[1] * d[2] <= MaxCells}

\* nodes a caller may pass: the nodes of the board and one node beyond each side
CallNodes(b) ==
    ((0..(b.rows - 1)) \X (0..(b.cols - 1)))
      \cup {<<-1, 0>>, <<0, -1>>, <<b.rows, 0>>, <<0, b.cols>>}

Abs(x) == IF x < 0 THEN -x ELSE x

\* node pairs a caller may pass to make_move: nodes at most two steps apart
\* (equal, adjacent, diagonal, two apart), in Python's tuple order and, for
\* the pairs with <<0, 0>>, in both orders
MoveArgs(b) ==
    {a \in CallNodes(b) \X CallNodes(b) :
        /\ Abs(a[1][1] - a[2][1]) + Abs(a[1][2] - a[2][2]) <= 2
        /\ \/ ~TupleLess(a[2], a[1])
           \/ a[1] = <<0, 0>>
           \/ a[2] = <<0, 0>>}

\* names and colours a caller may register
PlayerArgs == {<<"Ann", "Red">>}

\* no call of _has_path_between_sets is being followed step by step
NoSearch == [pc |-> "none"]

\* the state variables are the fields of g
Is(g) ==
    /\ board = g.board
    /\ players = g.players
    /\ current_player_index = g.current_player_index
    /\ game_state = g.game_state
    /\ winner = g.winner
    /\ move_history = g.move_history

Init ==
    /\ \E d \in BoardSizes : Is(BridgeItGame(d[1], d[2]))
    /\ last = [op |-> "__init__", ret |-> TRUE]
    /\ search = NoSearch

AddPlayer ==
    \E a \in PlayerArgs :
        \E r \in {add_player(Self, a[1], a[2], HUMAN)} :
            /\ Becomes(r.g)
            /\ last' = [op |-> "add_player", ret |-> ~r.raised]
            /\ UNCHANGED search

StartGame ==
    \E r \in {start_game(Self)} :
        /\ Becomes(r.g)
        /\ last' = [op |-> "start_game", ret |-> r.ret]
        /\ UNCHANGED search

MakeMove ==
    /\ Len(move_history) < MaxMoves
    /\ \E a \in MoveArgs(board) :
        \E r \in {make_move(Self, a[1], a[2])} :
            /\ Becomes(r.g)
            /\ last' = [op |-> "make_move", ret |-> r.ret]
            /\ UNCHANGED search

UndoLastMove ==
    \E r \in {undo_last_move(Self)} :
        /\ Becomes(r.g)
        /\ last' = [op |-> "undo_last_move", ret |-> r.ret]
        /\ UNCHANGED search

ResetGame ==
    \E g \in {reset_game(Self)} :
        /\ Becomes(g)
        /\ last' = [op |-> "reset_game", ret |-> TRUE]
        /\ UNCHANGED search

Next ==
    \/ AddPlayer
    \/ StartGame
    \/ MakeMove
    \/ UndoLastMove
    \/ ResetGame

Spec == Init /\ [][Next]_vars

----------------------------------------------------------------------------
(* The engine with players of different names and colours, and play one     *)
(* move shorter                                                             *)

NamedPlayerArgs == {<<"Ann", "Red">>, <<"Bob", "Blue">>}

AddNamedPlayer ==
    \E a \in NamedPlayerArgs :
        \E r \in {add_player(Self, a[1], a[2], HUMAN)} :
            /\ Becomes(r.g)
            /\ last' = [op |-> "add_player", ret |-> ~r.raised]
            /\ UNCHANGED search

MakeEarlyMove ==
    /\ Len(move_history) < MaxMoves - 1
    /\ \E a \in MoveArgs(board) :
        \E r \in {make_move(Self, a[1], a[2])} :
            /\ Becomes(r.g)
            /\ last' = [op |-> "make_move", ret |-> r.ret]
            /\ UNCHANGED search

NextPlayers ==
    \/ AddNamedPlayer
    \/ StartGame
    \/ MakeEarlyMove
    \/ UndoLastMove
    \/ ResetGame

SpecPlayers == Init /\ [][NextPlayers]_vars

-----------------------------------------------------------------------------
(* The engine on the smallest boards, played until the grid is full          *)

PlayBoardSizes == {d \in BoardSizes : d[1] * d[2] <= MaxPlayCells}

InitPlay ==
    /\ \E d \in PlayBoardSizes : Is(BridgeItGame(d[1], d[2]))
    /\ last = [op |-> "__init__", ret |-> TRUE]
    /\ search = NoSearch

MakeLateMove ==
    /\ Len(move_history) < MaxPlayMoves
    /\ \E a \in MoveArgs(board) :
        \E r \in {make_move(Self, a[1], a[2])} :
            /\ Becomes(r.g)
            /\ last' = [op |-> "make_move", ret |-> r.ret]
            /\ UNCHANGED search

NextPlay ==
    \/ AddNamedPlayer
    \/ StartGame
    \/ MakeLateMove
    \/ UndoLastMove
    \/ ResetGame

SpecPlay == InitPlay /\ [][NextPlay]_vars

----------------------------------------------------------------------------
(* The board alone: every assignment of edge states on every bounded board, *)
(* with has_winning_path applied to it                                      *)

AllBoardSizes == {d \in (1..MaxDim) \X (1..MaxDim) : d[1] * d[2] <= MaxCells}

InitBoard ==
    /\ \E d \in AllBoardSizes :
         \E e \in [DOMAIN _initialize_edges(d[1], d[2]) -> EdgeState] :
            board = [rows |-> d[1], cols |-> d[2], edges |-> e]
    /\ players = << >>
    /\ current_player_index = 0
    /\ game_state = SETUP
    /\ winner = None
    /\ move_history = << >>
    /\ last = [op |-> "__init__", ret |-> TRUE]
    /\ search = NoSearch

HasWinningPath ==
    /\ \E player \in {1, 2} :
         last' = [op |-> "has_winning_path", player |-> player,
                  ret |-> has_winning_path(board, player)]
    /\ UNCHANGED <<board, players, current_player_index, game_state, winner,
                   move_history, search>>

PlaceBridge ==
    /\ \E a \in MoveArgs(board), player \in {1, 2} :
         \E r \in {place_bridge(board, a[1], a[2], player)} :
            /\ board' = r.board
            /\ last' = [op |-> "place_bridge", player |-> player,
                        ret |-> r.ret]
    /\ UNCHANGED <<players, current_player_index, game_state, winner,
                   move_history, search>>

NextBoard ==
    \/ HasWinningPath
    \/ PlaceBridge

SpecBoard == InitBoard /\ [][NextBoard]_vars

-----------------------------------------------------------------------------
(* _has_path_between_sets step by step: search holds the frame of one call,
   the stack of dfs calls in progress with the position of each one's for
   loop, and the closure's visited set. adds counts, per node, the
   visited.add(node) executed since the last visited.clear(). *)

Nodes(b) == (0..(b.rows - 1)) \X (0..(b.cols - 1))

start_nodes_of(b, player) ==
    IF player = 1
    THEN [i \in 1..b.cols |-> <<0, i - 1>>]
    ELSE [i \in 1..b.rows |-> <<i - 1, 0>>]

end_nodes_of(b, player) ==
    IF player = 1
    THEN [i \in 1..b.cols |-> <<b.rows - 1, i - 1>>]
    ELSE [i \in 1..b.rows |-> <<i - 1, b.cols - 1>>]

\* has_winning_path(player) has called _has_path_between_sets: visited = set()
search_begin(b, player) ==
    [pc |-> "loop", player |-> player, start |-> 1, node |-> <<0, 0>>,
     val |-> FALSE, stack |-> << >>, visited |-> {},
     adds |-> [n \in Nodes(b) |-> 0], ret |-> FALSE]

\* for start_node in start_nodes: visited.clear(); dfs(start_node)
\* and the return False after the loop
loop_step(b, s) ==
    LET start_nodes == start_nodes_of(b, s.player)
    IN  IF s.start > Len(start_nodes)
        THEN [s EXCEPT !.pc = "done", !.ret = FALSE]
        ELSE [s EXCEPT !.pc = "call", !.node = start_nodes[s.start],
                       !.visited = {}, !.adds = [n \in Nodes(b) |-> 0]]

\* the head of dfs(node) without the test node in visited
dfs_enter_unvisited(b, s) ==
    IF s.node \in Range(end_nodes_of(b, s.player))
    THEN [s EXCEPT !.pc = "return", !.val = TRUE]
    ELSE [s EXCEPT !.pc = "for",
                   !.visited = @ \cup {s.node},
                   !.adds[s.node] = @ + 1,
                   !.stack = Append(@, [node |-> s.node, i |-> 1])]

\* the head of dfs(node): the two tests and visited.add(node)
dfs_enter(b, s) ==
    IF s.node \in s.visited
    THEN [s EXCEPT !.pc = "return", !.val = FALSE]
    ELSE IF s.node \in Range(end_nodes_of(b, s.player))
    THEN [s EXCEPT !.pc = "return", !.val = TRUE]
    ELSE [s EXCEPT !.pc = "for",
                   !.visited = @ \cup {s.node},
                   !.adds[s.node] = @ + 1,
                   !.stack = Append(@, [node |-> s.node, i |-> 1])]

\* one turn of the for loop of the innermost dfs, or its return False
dfs_for(b, s) ==
    LET top == s.stack[Len(s.stack)]
        nbrs == get_neighbors(b, top.node)
    IN  IF top.i > Len(nbrs)
        THEN [s EXCEPT !.pc = "return", !.val = FALSE,
                       !.stack = SubSeq(@, 1, Len(@) - 1)]
        ELSE IF get_edge_state(b, top.node, nbrs[top.i])
                    = player_state_of(s.player)
        THEN [s EXCEPT !.pc = "call", !.node = nbrs[top.i],
                       !.stack[Len(s.stack)].i = @ + 1]
        ELSE [s EXCEPT !.stack[Len(s.stack)].i = @ + 1]

\* a dfs call hands its value to its caller: if dfs(neighbor): return True
\* in the enclosing dfs, if dfs(start_node): return True in the start loop
dfs_return(b, s) ==
    IF s.stack = << >>
    THEN IF s.val
         THEN [s EXCEPT !.pc = "done", !.ret = TRUE]
         ELSE [s EXCEPT !.pc = "loop", !.start = @ + 1]
    ELSE IF s.val
         THEN [s EXCEPT !.stack = SubSeq(@, 1, Len(@) - 1)]
         ELSE [s EXCEPT !.pc = "for"]

InitSearch ==
    /\ \E d \in AllBoardSizes :
         \E e \in [DOMAIN _initialize_edges(d[1], d[2]) -> EdgeState] :
            board = [rows |-> d[1], cols |-> d[2], edges |-> e]
    /\ players = << >>
    /\ current_player_index = 0
    /\ game_state = SETUP
    /\ winner = None
    /\ move_history = << >>
    /\ last = [op |-> "__init__", ret |-> TRUE]
    /\ \E player \in {1, 2} : search = search_begin(board, player)

SearchLoop ==
    /\ search.pc = "loop"
    /\ search' = loop_step(board, search)
    /\ UNCHANGED <<board, players, current_player_index, game_state, winner,
                   move_history, last>>

DfsEnter ==
    /\ search.pc = "call"
    /\ search' = dfs_enter(board, search)
    /\ UNCHANGED <<board, players, current_player_index, game_state, winner,
                   move_history, last>>

DfsFor ==
    /\ search.pc = "for"
    /\ search' = dfs_for(board, search)
    /\ UNCHANGED <<board, players, current_player_index, game_state, winner,
                   move_history, last>>

DfsReturn ==
    /\ search.pc = "return"
    /\ search' = dfs_return(board, search)
    /\ UNCHANGED <<board, players, current_player_index, game_state, winner,
                   move_history, last>>

NextSearch ==
    \/ SearchLoop
    \/ DfsEnter
    \/ DfsFor
    \/ DfsReturn

\* the code is sequential: a call that has begun runs each of its steps
SpecSearch == InitSearch /\ [][NextSearch]_vars /\ WF_vars(NextSearch)

----------------------------------------------------------------------------
(* Notions the properties are stated with *)

\* are_adjacent_nodes of utils.py
are_adjacent_nodes(node1, node2) ==
    \/ node1[1] = node2[1] /\ Abs(node1[2] - node2[2]) = 1
    \/ node1[2] = node2[2] /\ Abs(node1[1] - node2[1]) = 1

InBounds(b, node) ==
    /\ 0 <= node[1] /\ node[1] < b.rows
    /\ 0 <= node[2] /\ node[2] < b.cols

\* the pair names an edge of the grid whose state is Empty
IsEmptyEdge(b, node1, node2) ==
    /\ InBounds(b, node1) /\ InBounds(b, node2)
    /\ are_adjacent_nodes(node1, node2)
    /\ \E e \in DOMAIN b.edges :
         /\ {e[1], e[2]} = {node1, node2}
         /\ b.edges[e] = EMPTY

\* the unordered pairs of grid-adjacent nodes of a rows x cols board, each as
\* the pair <<smaller, larger>> in Python's tuple order
GridEdges(rows, cols) ==
    LET nodes == (0..(rows - 1)) \X (0..(cols - 1))
    IN  {e \in nodes \X nodes :
            TupleLess(e[1], e[2]) /\ are_adjacent_nodes(e[1], e[2])}

\* identity of a player record: everything but the move counter
SamePlayer(p, q) ==
    /\ p.player_id = q.player_id
    /\ p.name = q.name
    /\ p.color = q.color
    /\ p.player_type = q.player_type

ClaimedEdges(b) == {e \in DOMAIN b.edges : b.edges[e] # EMPTY}

\* the sum of the players' move counters, from position i
RECURSIVE SumMoves(_, _)
SumMoves(ps, i) ==
    IF i > Len(ps) THEN 0 ELSE ps[i].moves_made + SumMoves(ps, i + 1)

\* the positions of the history whose entry carries player id pid
EntriesOf(h, pid) == {k \in 1..Len(h) : h[k][3] = pid}

\* the positions of the history whose entry names edge e, in either order
EntriesOn(h, e) == {k \in 1..Len(h) : _normalize_edge(h[k][1], h[k][2]) = e}

\* the id of the player whose turn it is (players[current_player_index])
TurnId(g) == g.players[g.current_player_index + 1].player_id

\* reference reachability: the nodes joined to a node of S by a chain of
\* edges of E, as the least fixed point of one-step extension
RECURSIVE Joined(_, _)
Joined(E, S) ==
    LET step == {e[2] : e \in {x \in E : x[1] \in S}}
                  \cup {e[1] : e \in {x \in E : x[2] \in S}}
    IN  IF step \subseteq S THEN S ELSE Joined(E, S \cup step)

StartSide(b, p) ==
    IF p = 1 THEN {<<0, c>> : c \in 0..(b.cols - 1)}
    ELSE {<<r, 0>> : r \in 0..(b.rows - 1)}

TargetSide(b, p) ==
    IF p = 1 THEN {<<b.rows - 1, c>> : c \in 0..(b.cols - 1)}
    ELSE {<<r, b.cols - 1>> : r \in 0..(b.rows - 1)}

RefWinningPath(b, p) ==
    Joined({e \in DOMAIN b.edges : b.edges[e] = p}, StartSide(b, p))
        \cap TargetSide(b, p) # {}

----------------------------------------------------------------------------
(* Properties *)

\* C1: once the state is Finished, every step other than reset_game leaves
\* the state Finished and the winner, the grid and the history as they were.
C1_FinishedIsFinal ==
    [][(game_state = FINISHED /\ last'.op # "reset_game")
         => /\ game_state' = FINISHED
            /\ winner' = winner
            /\ board' = board
            /\ move_history' = move_history]_vars

\* C2: the k-th entry of the history (k from 0) carries player id 1 when k is
\* even and 2 when k is odd.
C2_HistoryAlternates ==
    \A k \in 1..Len(move_history) :
        move_history[k][3] = (IF (k - 1) % 2 = 0 THEN 1 ELSE 2)

\* C3: after a successful undo_last_move the current player is the player
\* recorded in the history entry that was popped.
C3_UndoRevertsTurn ==
    [][(last'.op = "undo_last_move" /\ last'.ret)
         => /\ Len(move_history) > 0
            /\ TurnId(Self)' = move_history[Len(move_history)][3]]_vars

\* C4: in every Playing state, for every make_move that succeeds without a
\* win, undo_last_move right after it succeeds and gives back the state the
\* move was made in (grid, turn, counters, history, phase, winner), and the
\* edge is a valid move again.
C4_UndoInvertsMove ==
    game_state = PLAYING =>
        \A a \in MoveArgs(board) :
            \A r \in {make_move(Self, a[1], a[2])} :
                (r.ret /\ r.g.game_state # FINISHED) =>
                    \A u \in {undo_last_move(r.g)} :
                        /\ u.ret
                        /\ u.g = Self
                        /\ is_valid_move(u.g.board, a[1], a[2])

\* a Playing state reached by a successful undo, with a move on the board, in
\* which a pair given in reverse order is placed without a win and undone
C4_Witness ==
    /\ game_state = PLAYING
    /\ last.op = "undo_last_move" /\ last.ret
    /\ Len(move_history) >= 1
    /\ \E a \in MoveArgs(board) :
         /\ TupleLess(a[2], a[1])
         /\ \E r \in {make_move(Self, a[1], a[2])} :
              /\ r.ret
              /\ r.g.game_state = PLAYING
              /\ undo_last_move(r.g).g = Self

\* C5: a successful make_move ends the game exactly when the mover then has a
\* winning path: then the state is Finished, the winner is the mover and the
\* turn index is unchanged; otherwise the state is Playing, no winner is set
\* and the turn passes to the other player.
C5_MoveOutcome ==
    [][(last'.op = "make_move" /\ last'.ret)
         => IF has_winning_path(board', TurnId(Self))
            THEN /\ game_state' = FINISHED
                 /\ winner' = TurnId(Self)
                 /\ current_player_index' = current_player_index
            ELSE /\ game_state' = PLAYING
                 /\ winner' = None
                 /\ current_player_index' = 1 - current_player_index]_vars

\* C6: has_winning_path(p) is true exactly when a chain of edges owned by p
\* joins a node of p's start side to a node of p's target side.
C6_WinningPathIsReachability ==
    \A p \in {1, 2} : has_winning_path(board, p) = RefWinningPath(board, p)

\* has_winning_path returned true on a board where the player owns at least
\* three edges and no edge joins the two sides directly
C6_Witness ==
    /\ last.op = "has_winning_path" /\ last.ret
    /\ Cardinality({e \in DOMAIN board.edges :
                       board.edges[e] = last.player}) >= 3
    /\ \A e \in DOMAIN board.edges :
         board.edges[e] = last.player =>
            ~({e[1], e[2]} \cap StartSide(board, last.player) # {}
              /\ {e[1], e[2]} \cap TargetSide(board, last.player) # {})

\* C7: the length of the history is the number of edges that are not Empty
\* and is the sum of the players' move counters.
C7_HistoryCountsEdges ==
    /\ Len(move_history) = Cardinality(ClaimedEdges(board))
    /\ Len(move_history) = SumMoves(players, 1)

\* a move is on the board after a later move was undone
C7_Witness ==
    /\ Len(move_history) >= 1
    /\ last.op = "undo_last_move" /\ last.ret

\* C8: make_move on a pair that is not an Empty edge of the grid returns false
\* and changes nothing.
C8_InvalidMoveRejected ==
    \A a \in MoveArgs(board) :
        ~IsEmptyEdge(board, a[1], a[2]) =>
            make_move(Self, a[1], a[2]) = [g |-> Self, ret |-> FALSE]

\* make_move has just returned false in a Playing state with a claimed edge
C8_Witness ==
    /\ game_state = PLAYING
    /\ last.op = "make_move" /\ ~last.ret
    /\ ClaimedEdges(board) # {}

\* C9: make_move in a state that is not Playing returns false for every pair
\* and changes nothing.
C9_MoveOutsidePlayingRejected ==
    game_state # PLAYING =>
        \A a \in MoveArgs(board) :
            make_move(Self, a[1], a[2]) = [g |-> Self, ret |-> FALSE]

\* make_move has just returned false in a Finished state with an Empty edge
C9_Witness ==
    /\ game_state = FINISHED
    /\ last.op = "make_move" /\ ~last.ret
    /\ \E a \in MoveArgs(board) : IsEmptyEdge(board, a[1], a[2])

\* C10: undo_last_move returns false and changes nothing when the history is
\* empty or the state is Finished.
C10_UndoRejected ==
    (move_history = << >> \/ game_state = FINISHED) =>
        undo_last_move(Self) = [g |-> Self, ret |-> FALSE]

\* undo_last_move has just returned false in a Finished state
C10_Witness ==
    /\ game_state = FINISHED
    /\ move_history # << >>
    /\ last.op = "undo_last_move" /\ ~last.ret

\* C11: start_game succeeds, taking Setup to Playing with the turn on player
\* 1, exactly when the state is Setup and two players are registered; every
\* other call returns false and changes nothing.
C11_StartGameOnlyFromSetup ==
    \A r \in {start_game(Self)} :
        IF game_state = SETUP /\ Len(players) = 2
        THEN /\ r.ret
             /\ r.g = [Self EXCEPT !.game_state = PLAYING,
                                   !.current_player_index = 0]
        ELSE /\ ~r.ret
             /\ r.g = Self

\* C12: after reset_game the grid has the same dimensions and every edge of
\* it is Empty, the history is empty, no winner is set, every move counter is
\* 0, the turn is player 1's, the state is Playing with two players and Setup
\* otherwise, and the players are the same (ids, names, colours).
C12_ResetRestoresStart ==
    \A g \in {reset_game(Self)} :
        /\ g.board.rows = board.rows /\ g.board.cols = board.cols
        /\ DOMAIN g.board.edges = GridEdges(board.rows, board.cols)
        /\ \A e \in DOMAIN g.board.edges : g.board.edges[e] = EMPTY
        /\ g.move_history = << >>
        /\ g.winner = None
        /\ g.current_player_index = 0
        /\ g.game_state = (IF Len(players) = 2 THEN PLAYING ELSE SETUP)
        /\ Len(g.players) = Len(players)
        /\ \A i \in 1..Len(players) :
             /\ SamePlayer(g.players[i], players[i])
             /\ g.players[i].moves_made = 0

\* reset_game has just been called with two players of different names
C12_Witness ==
    /\ last.op = "reset_game"
    /\ Len(players) = 2
    /\ players[1].name # players[2].name
    /\ game_state = PLAYING
    /\ move_history = << >>

\* C13: place_bridge on a claimed edge returns false and leaves the grid as it
\* is, for either player id and either order of the endpoints; and no step
\* takes an edge from one player's ownership to the other's.
C13_ClaimedEdgeKeepsOwner ==
    /\ [](\A e \in ClaimedEdges(board) : \A p \in {1, 2} :
            /\ place_bridge(board, e[1], e[2], p)
                 = [board |-> board, ret |-> FALSE]
            /\ place_bridge(board, e[2], e[1], p)
                 = [board |-> board, ret |-> FALSE])
    /\ [][\A e \in ClaimedEdges(board) :
            (e \in DOMAIN board'.edges /\ board'.edges[e] # EMPTY)
                => board'.edges[e] = board.edges[e]]_vars

\* make_move has just been refused for player 2 while player 1 owns an edge
\* and player 2 none
C13_Witness ==
    /\ game_state = PLAYING
    /\ last.op = "make_move" /\ ~last.ret
    /\ TurnId(Self) = 2
    /\ \E e \in DOMAIN board.edges : board.edges[e] = PLAYER1
    /\ \A e \in DOMAIN board.edges : board.edges[e] # PLAYER2

\* C14: for every pair of nodes that is not a pair of grid-adjacent in-bounds
\* nodes, in either order, is_valid_move is false and place_bridge returns
\* false and leaves the grid (its edges and their states) as it is.
C14_NonEdgeRejected ==
    \A a \in CallNodes(board) \X CallNodes(board) :
        ~(/\ InBounds(board, a[1]) /\ InBounds(board, a[2])
          /\ are_adjacent_nodes(a[1], a[2]))
        => /\ ~is_valid_move(board, a[1], a[2])
           /\ \A p \in {1, 2} :
                place_bridge(board, a[1], a[2], p)
                    = [board |-> board, ret |-> FALSE]

\* place_bridge has just returned false on a grid whose edges are all Empty
C14_Witness ==
    /\ last.op = "place_bridge" /\ ~last.ret
    /\ DOMAIN board.edges # {}
    /\ \A e \in DOMAIN board.edges : board.edges[e] = EMPTY

\* C15: in every reachable state the edges of the grid are exactly the
\* normalized pairs of adjacent in-bounds nodes of the rows x cols board,
\* rows*(cols-1) + cols*(rows-1) of them; they are all Empty right after
\* construction; and no step of the engine changes the dimensions or the set
\* of edges, only the states of edges.
C15_EdgeSetIsGrid ==
    /\ [](/\ DOMAIN board.edges = GridEdges(board.rows, board.cols)
          /\ Cardinality(DOMAIN board.edges)
                = board.rows * (board.cols - 1)
                    + board.cols * (board.rows - 1)
          /\ \A e \in DOMAIN board.edges : board.edges[e] \in EdgeState
          /\ last.op = "__init__"
                => \A e \in DOMAIN board.edges : board.edges[e] = EMPTY)
    /\ [][/\ board'.rows = board.rows
          /\ board'.cols = board.cols
          /\ DOMAIN board'.edges = DOMAIN board.edges]_vars

\* the only move made has been undone, leaving every edge Empty again
C15_Witness ==
    /\ last.op = "undo_last_move" /\ last.ret
    /\ move_history = << >>
    /\ \A e \in DOMAIN board.edges : board.edges[e] = EMPTY
    /\ players[1].moves_made = 0

\* C16: add_player with two players registered fails (it raises) and leaves
\* players, state, turn, winner, grid and history as they are; with fewer than
\* two it appends one player whose id is the new number of players (1, then
\* 2) and whose move counter is 0, and changes nothing else.
C16_AddPlayer ==
    /\ Len(players) <= 2
    /\ \A i \in 1..Len(players) : players[i].player_id = i
    /\ \A a \in NamedPlayerArgs :
         \A r \in {add_player(Self, a[1], a[2], HUMAN)} :
            IF Len(players) = 2
            THEN r.raised /\ r.g = Self
            ELSE /\ ~r.raised
                 /\ Len(r.g.players) = Len(players) + 1
                 /\ SubSeq(r.g.players, 1, Len(players)) = players
                 /\ r.ret = r.g.players[Len(players) + 1]
                 /\ r.ret.player_id = Len(players) + 1
                 /\ r.ret.name = a[1]
                 /\ r.ret.color = a[2]
                 /\ r.ret.moves_made = 0
                 /\ r.g = [Self EXCEPT !.players = r.g.players]

\* a third registration has just been refused in the middle of a game
C16_Witness ==
    /\ last.op = "add_player" /\ ~last.ret
    /\ Len(players) = 2
    /\ players[1].name # players[2].name
    /\ game_state = PLAYING
    /\ move_history # << >>

\* C17 as stated: on a grid of any dimensions whose edges are all Empty,
\* has_winning_path is false for player 1 and for player 2.
C17_EmptyGridNoWinner ==
    (\A e \in DOMAIN board.edges : board.edges[e] = EMPTY)
    => /\ ~has_winning_path(board, 1)
       /\ ~has_winning_path(board, 2)

\* C17 amended: on a grid whose edges are all Empty, has_winning_path is
\* false for player 1 when the board has two rows or more and false for player
\* 2 when it has two columns or more; on a board of one row the top and bottom
\* sides are the same nodes and it is true for player 1, and on a board of one
\* column it is true for player 2.
C17_EmptyGridNoWinnerUnlessSidesCoincide ==
    (\A e \in DOMAIN board.edges : board.edges[e] = EMPTY)
    => /\ has_winning_path(board, 1) = (board.rows = 1)
       /\ has_winning_path(board, 2) = (board.cols = 1)

\* has_winning_path has just returned false on an all-Empty grid of two rows
\* and two columns or more
C17_Witness ==
    /\ last.op = "has_winning_path" /\ ~last.ret
    /\ board.rows >= 2 /\ board.cols >= 2
    /\ \A e \in DOMAIN board.edges : board.edges[e] = EMPTY

\* C18: in every reachable state whose game_state is Playing or Finished
\* there are exactly two players, with ids 1 and 2 in that order; and no step
\* (reset_game included) removes a player or replaces one by another: the
\* list never shrinks and each registered player keeps its id, name, color
\* and type.
C18_TwoPlayersKept ==
    /\ [](game_state \in {PLAYING, FINISHED}
            => /\ Len(players) = 2
               /\ players[1].player_id = 1
               /\ players[2].player_id = 2)
    /\ [][/\ Len(players') >= Len(players)
          /\ \A i \in 1..Len(players) : SamePlayer(players'[i], players[i])]_vars

\* a game between two differently named players has been won
C18_Witness ==
    /\ game_state = FINISHED
    /\ Len(players) = 2
    /\ players[1].name # players[2].name
    /\ winner # None

\* C19: on every bounded grid and every assignment of edge states, between two
\* visited.clear() each node is added to visited (and so expanded) at most
\* once, visited being exactly the nodes added; the search over all start
\* nodes eventually returns; and what it returns is has_winning_path.
C19_SearchTerminates ==
    /\ [](\A n \in Nodes(board) :
            /\ search.adds[n] <= 1
            /\ (n \in search.visited) = (search.adds[n] = 1))
    /\ [](search.pc = "done"
            => search.ret = has_winning_path(board, search.player))
    /\ <>(search.pc = "done")

\* a search has returned False after its last start node led it through four
\* nodes or more
C19_Witness ==
    /\ search.pc = "done" /\ ~search.ret
    /\ Cardinality(search.visited) >= 4

\* C20: in every reachable state the winner is set exactly when game_state
\* is Finished, and when it is set the winner is the player of the last entry
\* of the history and has a winning path on the grid as it is.
C20_WinnerIffFinished ==
    /\ (winner # None) = (game_state = FINISHED)
    /\ winner # None
         => /\ move_history # << >>
            /\ move_history[Len(move_history)][3] = winner
            /\ has_winning_path(board, winner)

\* C21: in every reachable state whose game_state is Playing, neither player
\* has a winning path on the grid.
C21_NoPathWhilePlaying ==
    game_state = PLAYING
    => /\ ~has_winning_path(board, 1)
       /\ ~has_winning_path(board, 2)

\* C22: in every reachable state, for each player id p the edges owned by p
\* are as many as the history entries carrying p, and the move counter of a
\* registered player p equals both and is not negative; each claimed edge is
\* named by exactly one history entry, and is owned by that entry's player.
C22_CountersMatchGridAndHistory ==
    /\ \A p \in {1, 2} :
         Cardinality(get_player_edges(board, p))
            = Cardinality(EntriesOf(move_history, p))
    /\ \A i \in 1..Len(players) :
         /\ players[i].moves_made >= 0
         /\ players[i].moves_made
              = Cardinality(get_player_edges(board, players[i].player_id))
         /\ players[i].moves_made
              = Cardinality(EntriesOf(move_history, players[i].player_id))
    /\ \A e \in ClaimedEdges(board) :
         /\ Cardinality(EntriesOn(move_history, e)) = 1
         /\ \A k \in EntriesOn(move_history, e) :
              board.edges[e] = player_state_of(move_history[k][3])

\* a move has been undone while each player still has a bridge on the grid
C22_Witness ==
    /\ last.op = "undo_last_move" /\ last.ret
    /\ Len(players) = 2
    /\ players[1].moves_made >= 1
    /\ players[2].moves_made >= 1

\* C23: whenever game_state is Playing, get_available_moves is not empty and
\* some pair is accepted by make_move; no reachable state is Playing with no
\* winner and every edge claimed.
C23_PlayingHasAMove ==
    /\ game_state = PLAYING
         => /\ get_available_moves(Self) # {}
            /\ \E a \in MoveArgs(board) : make_move(Self, a[1], a[2]).ret
    /\ ~(/\ game_state = PLAYING
         /\ winner = None
         /\ \A e \in DOMAIN board.edges : board.edges[e] # EMPTY)

====
